---- MODULE Spec2Model ----
(***************************************************************************)
(* The todo page (src/app/page.tsx): the TodosApp component's state, its   *)
(* four handlers, and the HTTP calls of src/lib/api.ts that are in flight  *)
(* between the page and the remote /todos store.                           *)
(*                                                                         *)
(* An async handler is two steps: the part up to its await (which issues   *)
(* the call) and the continuation that runs when the call has resolved     *)
(* (the rest of the try block, or the catch block).  Between the two the   *)
(* remote store serves the call.  Other events interleave freely.          *)
(***************************************************************************)
EXTENDS Integers, Sequences, FiniteSets

\* ---------------------------------------------------------------- bounds
\* Total number of API calls the page may issue in one run.
MaxCalls == 4

\* ------------------------------------------------------------ value sets
\* null / undefined wherever the source has a number | null or an optional id.
NULL == -1
\* An absent (undefined) description of a Todo record.
NoDesc == "undefined"

\* What the user can type into the title and description inputs.
TitleInputs == {"", "A"}
DescInputs == {""}

\* Records the remote store may hold when the page is opened.
T0 == [id |-> 0, title |-> "B", description |-> NoDesc, completed |-> FALSE]
T1 == [id |-> 1, title |-> "A", description |-> "d", completed |-> FALSE]
InitialStores == {<<>>, <<T1>>, <<T0, T1>>}

VARIABLES
    todos,      \* useState<Todo[]>: the local list
    loading,    \* useState(true)
    editId,     \* useState<number | null>: the edit cursor
    form,       \* the values held by useForm
    toast,      \* the notification reported last ("" before any)
    mounted,    \* whether the mount effect has run
    server,     \* the remote store: the sequence GET /todos returns
    inflight,   \* the calls issued and not yet resolved
    ncalls,     \* number of calls issued so far
    rejected    \* the latest user event was a Submit that validation aborted

vars == <<todos, loading, editId, form, toast, mounted, server, inflight, ncalls, rejected>>

\* ----------------------------------------------------------------- form
defaultValues == [title |-> "", description |-> "", completed |-> FALSE]

\* todoSchema: title is required with minimum length 1.
todoSchema(values) == Len(values.title) >= 1

\* ------------------------------------------------------------ API client
Call(cid, kind, id, data) ==
    [cid |-> cid, kind |-> kind, id |-> id, data |-> data,
     stage |-> "sent", resp |-> <<>>]

getTodos(cid) == Call(cid, "getTodos", NULL, <<>>)
createTodo(cid, data) == Call(cid, "createTodo", NULL, <<data>>)
updateTodo(cid, id, data) == Call(cid, "updateTodo", id, <<data>>)
deleteTodo(cid, id) == Call(cid, "deleteTodo", id, <<>>)

\* JavaScript truthiness of an optional number: undefined, null and 0 are falsy.
Truthy(n) == n # NULL /\ n # 0

\* Calls still owed by the calls in flight: a submit that succeeds issues a reload.
Owed == Cardinality({c \in inflight : c.kind \in {"createTodo", "updateTodo"}})
CanIssue(n) == ncalls + Owed + n <= MaxCalls

\* ------------------------------------------------------------- the store
Ids(list) == {list[i].id : i \in 1..Len(list)}

SetMax(S) == CHOOSE m \in S : \A x \in S : x <= m
NextId(store) == IF store = <<>> THEN 1 ELSE SetMax(Ids(store)) + 1

Stored(id, values) ==
    [id |-> id, title |-> values.title, description |-> values.description,
     completed |-> values.completed]

\* The store after a call is served successfully.
Applied(store, c) ==
    CASE c.kind = "createTodo" -> Append(store, Stored(NextId(store), c.data[1]))
      [] c.kind = "updateTodo" ->
            [i \in 1..Len(store) |->
                IF store[i].id = c.id THEN Stored(c.id, c.data[1]) ELSE store[i]]
      [] c.kind = "deleteTodo" -> SelectSeq(store, LAMBDA t : t.id # c.id)
      [] OTHER -> store

\* The remote store answers a call with 2xx, applying it.  update of a missing
\* id is always refused; delete of a missing id may be answered either way.
ServeOk(c) ==
    /\ c \in inflight /\ c.stage = "sent"
    /\ c.kind = "updateTodo" => c.id \in Ids(server)
    /\ server' = Applied(server, c)
    /\ LET d == [c EXCEPT !.stage = "ok",
                          !.resp = IF c.kind = "getTodos" THEN server ELSE <<>>]
       IN  inflight' = (inflight \ {c}) \cup {d}
    /\ UNCHANGED <<todos, loading, editId, form, toast, mounted, ncalls, rejected>>

\* The call fails (transport error or a non-2xx answer); the store is untouched.
ServeFail(c) ==
    /\ c \in inflight /\ c.stage = "sent"
    /\ LET d == [c EXCEPT !.stage = "fail"]
       IN  inflight' = (inflight \ {c}) \cup {d}
    /\ UNCHANGED <<todos, loading, editId, form, toast, mounted, server, ncalls, rejected>>

\* ------------------------------------------------------------- loadTodos
\* loadTodos up to its await: one getTodos call is issued.
loadTodosCall(calls, n) == calls \cup {getTodos(n + 1)}

\* res.data || []: the store answers with an array, and an array, even an
\* empty one, is truthy, so the data is taken as it is.
DataOrEmpty(data) == data

\* Mutant: setLoading(false) in the catch block only, not in finally.
loadTodosThenStaysLoading(c) ==
    /\ c \in inflight /\ c.kind = "getTodos" /\ c.stage = "ok"
    /\ todos' = c.resp
    /\ inflight' = inflight \ {c}
    /\ UNCHANGED <<loading, editId, form, toast, mounted, server, ncalls, rejected>>

\* Mutant: a response is dropped when a call issued after it has already been
\* issued (latest request wins), which sequences loads against deletes.
loadTodosThenIgnoresStale(c) ==
    /\ c \in inflight /\ c.kind = "getTodos" /\ c.stage = "ok"
    /\ todos' = IF c.cid = ncalls THEN c.resp ELSE todos
    /\ loading' = FALSE
    /\ inflight' = inflight \ {c}
    /\ UNCHANGED <<editId, form, toast, mounted, server, ncalls, rejected>>

\* The try block after the await, then finally.
loadTodosThen(c) ==
    /\ c \in inflight /\ c.kind = "getTodos" /\ c.stage = "ok"
    /\ todos' = DataOrEmpty(c.resp)
    /\ loading' = FALSE
    /\ inflight' = inflight \ {c}
    /\ UNCHANGED <<editId, form, toast, mounted, server, ncalls, rejected>>

\* Mutant: the catch block also empties the list and clears the cursor.
loadTodosCatchClears(c) ==
    /\ c \in inflight /\ c.kind = "getTodos" /\ c.stage = "fail"
    /\ toast' = "Failed to load todos"
    /\ todos' = <<>>
    /\ editId' = NULL
    /\ loading' = FALSE
    /\ inflight' = inflight \ {c}
    /\ UNCHANGED <<form, mounted, server, ncalls, rejected>>

\* The catch block, then finally.
loadTodosCatch(c) ==
    /\ c \in inflight /\ c.kind = "getTodos" /\ c.stage = "fail"
    /\ toast' = "Failed to load todos"
    /\ loading' = FALSE
    /\ inflight' = inflight \ {c}
    /\ UNCHANGED <<todos, editId, form, mounted, server, ncalls, rejected>>

\* useEffect(() => { loadTodos(); }, [])
Mount ==
    /\ ~mounted
    /\ mounted' = TRUE
    /\ inflight' = loadTodosCall(inflight, ncalls)
    /\ ncalls' = ncalls + 1
    /\ UNCHANGED <<todos, loading, editId, form, toast, server, rejected>>

\* ------------------------------------------------------------ form input
titleOnChange(t) ==
    /\ mounted /\ t \in TitleInputs /\ t # form.title
    /\ form' = [form EXCEPT !.title = t]
    /\ rejected' = FALSE
    /\ UNCHANGED <<todos, loading, editId, toast, mounted, server, inflight, ncalls>>

descriptionOnChange(d) ==
    /\ mounted /\ d \in DescInputs /\ d # form.description
    /\ form' = [form EXCEPT !.description = d]
    /\ rejected' = FALSE
    /\ UNCHANGED <<todos, loading, editId, toast, mounted, server, inflight, ncalls>>

\* onCheckedChange={(checked) => field.onChange(Boolean(checked))}
completedOnChange ==
    /\ mounted
    /\ form' = [form EXCEPT !.completed = ~form.completed]
    /\ rejected' = FALSE
    /\ UNCHANGED <<todos, loading, editId, toast, mounted, server, inflight, ncalls>>

\* --------------------------------------------------------------- onSubmit
\* Mutant: the branches of if (editId) swapped.
onSubmitCallSwapped(cursor, values, n) ==
    IF Truthy(cursor) THEN createTodo(n + 1, values)
    ELSE updateTodo(n + 1, cursor, values)

\* The call onSubmit makes before its await.
onSubmitCall(cursor, values, n) ==
    IF Truthy(cursor) THEN updateTodo(n + 1, cursor, values)
    ELSE createTodo(n + 1, values)

\* Mutant: onSubmit wired to the form without the resolver's verdict.
handleSubmitPassesUnvalidated(values) == TRUE

\* form.handleSubmit(onSubmit): validate, and only then run onSubmit.
handleSubmitPasses(values) == todoSchema(values)

handleSubmit ==
    /\ mounted
    /\ IF handleSubmitPasses(form)
       THEN /\ CanIssue(2)
            /\ inflight' = inflight \cup {onSubmitCall(editId, form, ncalls)}
            /\ ncalls' = ncalls + 1
            /\ rejected' = FALSE
       ELSE /\ rejected' = TRUE
            /\ UNCHANGED <<inflight, ncalls>>
    /\ UNCHANGED <<todos, loading, editId, form, toast, mounted, server>>

\* Mutant: setEditId(null) left out of the try block.
onSubmitThenKeepsCursor(c) ==
    /\ c \in inflight /\ c.kind \in {"createTodo", "updateTodo"} /\ c.stage = "ok"
    /\ toast' = IF c.kind = "updateTodo" THEN "Todo updated!" ELSE "Todo added!"
    /\ form' = defaultValues
    /\ inflight' = (inflight \ {c}) \cup {getTodos(ncalls + 1)}
    /\ ncalls' = ncalls + 1
    /\ UNCHANGED <<todos, loading, editId, mounted, server, rejected>>

\* Mutant: a successful update is also patched into the local list.
onSubmitThenPatchesLocally(c) ==
    /\ c \in inflight /\ c.kind \in {"createTodo", "updateTodo"} /\ c.stage = "ok"
    /\ toast' = IF c.kind = "updateTodo" THEN "Todo updated!" ELSE "Todo added!"
    /\ form' = defaultValues
    /\ editId' = NULL
    /\ todos' = IF c.kind = "updateTodo"
                THEN [i \in 1..Len(todos) |->
                        IF todos[i].id = c.id THEN Stored(c.id, c.data[1]) ELSE todos[i]]
                ELSE todos
    /\ inflight' = (inflight \ {c}) \cup {getTodos(ncalls + 1)}
    /\ ncalls' = ncalls + 1
    /\ UNCHANGED <<loading, mounted, server, rejected>>

\* Mutant: loadTodos begins with setLoading(true), so a reload hides the rows.
onSubmitThenShowsLoading(c) ==
    /\ c \in inflight /\ c.kind \in {"createTodo", "updateTodo"} /\ c.stage = "ok"
    /\ toast' = IF c.kind = "updateTodo" THEN "Todo updated!" ELSE "Todo added!"
    /\ form' = defaultValues
    /\ editId' = NULL
    /\ loading' = TRUE
    /\ inflight' = (inflight \ {c}) \cup {getTodos(ncalls + 1)}
    /\ ncalls' = ncalls + 1
    /\ UNCHANGED <<todos, mounted, server, rejected>>

\* The try block after the await: toast, form.reset(), setEditId(null), loadTodos().
onSubmitThen(c) ==
    /\ c \in inflight /\ c.kind \in {"createTodo", "updateTodo"} /\ c.stage = "ok"
    /\ toast' = IF c.kind = "updateTodo" THEN "Todo updated!" ELSE "Todo added!"
    /\ form' = defaultValues
    /\ editId' = NULL
    /\ inflight' = loadTodosCall(inflight \ {c}, ncalls)
    /\ ncalls' = ncalls + 1
    /\ UNCHANGED <<todos, loading, mounted, server, rejected>>

\* Mutant: form.reset() moved to a finally block, so it also runs on failure.
onSubmitCatchResets(c) ==
    /\ c \in inflight /\ c.kind \in {"createTodo", "updateTodo"} /\ c.stage = "fail"
    /\ toast' = "Something went wrong!"
    /\ form' = defaultValues
    /\ inflight' = inflight \ {c}
    /\ UNCHANGED <<todos, loading, editId, mounted, server, ncalls, rejected>>

\* Mutant: setEditId(null) moved to a finally block, so it also runs on failure.
onSubmitCatchClearsCursor(c) ==
    /\ c \in inflight /\ c.kind \in {"createTodo", "updateTodo"} /\ c.stage = "fail"
    /\ toast' = "Something went wrong!"
    /\ editId' = NULL
    /\ inflight' = inflight \ {c}
    /\ UNCHANGED <<todos, loading, form, mounted, server, ncalls, rejected>>

\* The catch block.
onSubmitCatch(c) ==
    /\ c \in inflight /\ c.kind \in {"createTodo", "updateTodo"} /\ c.stage = "fail"
    /\ toast' = "Something went wrong!"
    /\ inflight' = inflight \ {c}
    /\ UNCHANGED <<todos, loading, editId, form, mounted, server, ncalls, rejected>>

\* ------------------------------------------------------------- handleEdit
\* todo.description || ""
DescriptionOrEmpty(d) == IF d = NoDesc \/ d = "" THEN "" ELSE d

\* if (!todo.id) return;
handleEditReturns(todo) == ~Truthy(todo.id)

\* The rows, with their Edit and Delete buttons, are rendered only when not loading.
Rows == IF loading THEN {} ELSE 1..Len(todos)

handleEdit(todo) ==
    /\ mounted
    /\ \E i \in Rows : todos[i] = todo
    /\ IF handleEditReturns(todo)
       THEN UNCHANGED <<editId, form>>
       ELSE /\ editId' = todo.id
            /\ form' = [title |-> todo.title,
                        description |-> DescriptionOrEmpty(todo.description),
                        completed |-> todo.completed]
    /\ rejected' = FALSE
    /\ UNCHANGED <<todos, loading, toast, mounted, server, inflight, ncalls>>

\* ----------------------------------------------------------- handleDelete
\* if (!id) return;
handleDeleteReturns(id) == ~Truthy(id)

\* Mutant: the record is removed from the list at the click, before the await.
handleDeleteOptimistic(id) ==
    /\ mounted
    /\ \E i \in Rows : todos[i].id = id
    /\ IF ~Truthy(id)
       THEN UNCHANGED <<todos, inflight, ncalls>>
       ELSE /\ CanIssue(1)
            /\ todos' = SelectSeq(todos, LAMBDA t : t.id # id)
            /\ inflight' = inflight \cup {deleteTodo(ncalls + 1, id)}
            /\ ncalls' = ncalls + 1
    /\ rejected' = FALSE
    /\ UNCHANGED <<loading, editId, form, toast, mounted, server>>

handleDelete(id) ==
    /\ mounted
    /\ \E i \in Rows : todos[i].id = id
    /\ IF handleDeleteReturns(id)
       THEN UNCHANGED <<inflight, ncalls>>
       ELSE /\ CanIssue(1)
            /\ inflight' = inflight \cup {deleteTodo(ncalls + 1, id)}
            /\ ncalls' = ncalls + 1
    /\ rejected' = FALSE
    /\ UNCHANGED <<todos, loading, editId, form, toast, mounted, server>>

\* Mutant: the filter keeps the matching record instead of the others.
DeleteFilterKeepsMatch(prev, id) == SelectSeq(prev, LAMBDA t : t.id = id)

\* Mutant: prev.splice(prev.findIndex(...), 1), which drops the last record
\* when no record has the id.
DeleteFilterSplice(prev, id) ==
    IF \E i \in 1..Len(prev) : prev[i].id = id
    THEN SelectSeq(prev, LAMBDA t : t.id # id)
    ELSE SubSeq(prev, 1, Len(prev) - 1)

\* prev.filter((t) => t.id !== id)
DeleteFilter(prev, id) == SelectSeq(prev, LAMBDA t : t.id # id)

\* The try block after the await.
handleDeleteThen(c) ==
    /\ c \in inflight /\ c.kind = "deleteTodo" /\ c.stage = "ok"
    /\ toast' = "Todo deleted!"
    /\ todos' = DeleteFilter(todos, c.id)
    /\ inflight' = inflight \ {c}
    /\ UNCHANGED <<loading, editId, form, mounted, server, ncalls, rejected>>

\* Mutant: the record is removed before the outcome is known to be a success.
handleDeleteCatchRemoves(c) ==
    /\ c \in inflight /\ c.kind = "deleteTodo" /\ c.stage = "fail"
    /\ toast' = "Delete failed"
    /\ todos' = SelectSeq(todos, LAMBDA t : t.id # c.id)
    /\ inflight' = inflight \ {c}
    /\ UNCHANGED <<loading, editId, form, mounted, server, ncalls, rejected>>

\* The catch block.
handleDeleteCatch(c) ==
    /\ c \in inflight /\ c.kind = "deleteTodo" /\ c.stage = "fail"
    /\ toast' = "Delete failed"
    /\ inflight' = inflight \ {c}
    /\ UNCHANGED <<todos, loading, editId, form, mounted, server, ncalls, rejected>>

\* ---------------------------------------------------------- specification
Init ==
    /\ todos = <<>>
    /\ loading = TRUE
    /\ editId = NULL
    /\ form = defaultValues
    /\ toast = ""
    /\ mounted = FALSE
    /\ server \in InitialStores
    /\ inflight = {}
    /\ ncalls = 0
    /\ rejected = FALSE

Next ==
    \/ Mount
    \/ \E t \in TitleInputs : titleOnChange(t)
    \/ \E d \in DescInputs : descriptionOnChange(d)
    \/ completedOnChange
    \/ handleSubmit
    \/ \E i \in 1..Len(todos) : handleEdit(todos[i])
    \/ \E i \in 1..Len(todos) : handleDelete(todos[i].id)
    \/ \E c \in inflight : ServeOk(c)
    \/ \E c \in inflight : ServeFail(c)
    \/ \E c \in inflight : loadTodosThen(c)
    \/ \E c \in inflight : loadTodosCatch(c)
    \/ \E c \in inflight : onSubmitThen(c)
    \/ \E c \in inflight : onSubmitCatch(c)
    \/ \E c \in inflight : handleDeleteThen(c)
    \/ \E c \in inflight : handleDeleteCatch(c)

Spec == Init /\ [][Next]_vars

\* The mount call, the first call issued.
MountCall(c) == c \in inflight /\ c.cid = 1

\* The remote store answers the mount call, and the event loop then runs the
\* continuation of loadTodos.
FairSpec ==
    /\ Spec
    /\ WF_vars(Mount)
    /\ WF_vars(\E c \in inflight : MountCall(c) /\ (ServeOk(c) \/ ServeFail(c)))
    /\ WF_vars(\E c \in inflight : MountCall(c) /\ (loadTodosThen(c) \/ loadTodosCatch(c)))

\* ------------------------------------------------------- reading a step
\* The calls issued by the step.
Issued == {d \in inflight' : \A c \in inflight : c.cid # d.cid}

\* The step runs the continuation of call c: c has been answered and leaves.
Resolved(c) ==
    /\ c \in inflight /\ c.stage \in {"ok", "fail"}
    /\ \A d \in inflight' : d.cid # c.cid

IsSubmitCall(c) == c.kind \in {"createTodo", "updateTodo"}

NoCallIssued == Issued = {} /\ ncalls' = ncalls

\* ------------------------------------------------------------------ C1
\* C1: a Submit whose title is empty issues no API call, in create mode and in
\* edit mode alike, and leaves the todo list and the edit cursor unchanged.
C1_ValidationGate ==
    [][(handleSubmit /\ form.title = "") =>
          /\ NoCallIssued
          /\ inflight' = inflight
          /\ todos' = todos
          /\ editId' = editId]_vars

\* An empty-title Submit has just been refused while a record is being edited.
C1_Witness == rejected /\ form.title = "" /\ editId # NULL /\ ~loading

\* ------------------------------------------------------------------ C2
Kept(before, id) == {i \in 1..Len(before) : before[i].id # id}

\* after is before without the records of this id, the rest in the same order.
RemovedById(before, after, id) ==
    /\ Len(after) = Cardinality(Kept(before, id))
    /\ \A i \in Kept(before, id) :
          after[Cardinality({j \in Kept(before, id) : j <= i})] = before[i]

\* C2: when a delete(id) call resolves successfully the local list becomes the
\* list before with the record of that id removed, the others kept in order,
\* and no list() reload is issued.
C2_DeleteRemovesLocally ==
    [][\A c \in inflight :
          (Resolved(c) /\ c.kind = "deleteTodo" /\ c.stage = "ok") =>
              /\ RemovedById(todos, todos', c.id)
              /\ NoCallIssued]_vars

\* The middle record of three (the two of the store and one created since) has
\* been removed by a successful delete.
C2_Witness ==
    /\ toast = "Todo deleted!" /\ ncalls = 4 /\ inflight = {}
    /\ Len(todos) = 2 /\ todos[1] = T0 /\ todos[2].id = 2

\* ------------------------------------------------------------------ C3
\* C3: when a delete(id) call fails the local list and the edit cursor are
\* unchanged, the delete-failure notification is reported, and no call is issued.
C3_DeleteFailure ==
    [][\A c \in inflight :
          (Resolved(c) /\ c.kind = "deleteTodo" /\ c.stage = "fail") =>
              /\ todos' = todos
              /\ editId' = editId
              /\ toast' = "Delete failed"
              /\ NoCallIssued]_vars

\* A delete of the record being edited has failed; the record is still listed.
C3_Witness ==
    /\ toast = "Delete failed" /\ inflight = {} /\ ncalls = 2
    /\ editId = 1 /\ 1 \in Ids(todos)

\* ------------------------------------------------------------------ C4
\* C4: a validated Submit issues exactly one call: update(editCursor, values)
\* when the edit cursor is set, create(values) with no id when it is null.
C4_SubmitIssuesOneCall ==
    [][(handleSubmit /\ form.title # "") =>
          /\ Cardinality(Issued) = 1
          /\ ncalls' = ncalls + 1
          /\ \A d \in Issued :
                /\ d.stage = "sent"
                /\ d.data = <<form>>
                /\ DOMAIN d.data[1] = {"title", "description", "completed"}
                /\ IF editId # NULL
                   THEN d.kind = "updateTodo" /\ d.id = editId
                   ELSE d.kind = "createTodo" /\ d.id = NULL]_vars

\* An update of the record being edited is on its way.
C4_Witness ==
    \E c \in inflight : c.kind = "updateTodo" /\ c.stage = "sent" /\ c.id = editId

\* ------------------------------------------------------------------ C5
\* C5: when the create or update call of a Submit resolves successfully the
\* edit cursor becomes null, the form returns to its defaults and exactly one
\* list() reload is issued; a reload is issued at no other moment.
C5_SubmitSuccess ==
    [][/\ \A c \in inflight :
             (Resolved(c) /\ IsSubmitCall(c) /\ c.stage = "ok") =>
                 /\ editId' = NULL
                 /\ form' = [title |-> "", description |-> "", completed |-> FALSE]
                 /\ Cardinality(Issued) = 1
                 /\ ncalls' = ncalls + 1
                 /\ \A d \in Issued : d.kind = "getTodos" /\ d.stage = "sent"
       /\ \A d \in Issued :
             (d.kind = "getTodos" /\ mounted) =>
                 \E c \in inflight : Resolved(c) /\ IsSubmitCall(c) /\ c.stage = "ok"]_vars

\* An update has succeeded: create mode, default form, the reload on its way.
C5_Witness ==
    /\ toast = "Todo updated!" /\ editId = NULL /\ form = defaultValues
    /\ \E d \in inflight : d.kind = "getTodos" /\ d.stage = "sent"
    /\ \E i \in 1..Len(server) : server[i].completed /\ server[i].id = 1

\* ------------------------------------------------------------------ C6
\* C6: when the create or update call of a Submit fails, the list, the edit
\* cursor, the form values and loading are unchanged, the error notification is
\* reported, and no reload and no retry is issued.
C6_SubmitFailure ==
    [][\A c \in inflight :
          (Resolved(c) /\ IsSubmitCall(c) /\ c.stage = "fail") =>
              /\ todos' = todos
              /\ editId' = editId
              /\ form' = form
              /\ loading' = loading
              /\ toast' = "Something went wrong!"
              /\ NoCallIssued]_vars

\* An update has failed: the cursor and the entered values are still there.
C6_Witness ==
    /\ toast = "Something went wrong!" /\ inflight = {} /\ ncalls = 2
    /\ editId = 1 /\ form.title = "A" /\ form.description = "d"

\* ------------------------------------------------------------------ C7
\* C7 as stated: whenever a list() call fails, at mount or on a reload, the
\* controller ends in Ready with an empty list and a null edit cursor, and the
\* load-failure notification is reported.
C7_Original ==
    [][\A c \in inflight :
          (Resolved(c) /\ c.kind = "getTodos" /\ c.stage = "fail") =>
              /\ loading' = FALSE
              /\ todos' = <<>>
              /\ editId' = NULL
              /\ toast' = "Failed to load todos"]_vars

\* C7 amended: whenever a list() call fails the controller ends in Ready with
\* the list and the edit cursor it had before the failure, which are the empty
\* list and null while the controller is still Loading, and the load-failure
\* notification is reported.
C7_LoadFailure ==
    [][\A c \in inflight :
          (Resolved(c) /\ c.kind = "getTodos" /\ c.stage = "fail") =>
              /\ loading' = FALSE
              /\ todos' = todos
              /\ editId' = editId
              /\ loading => (todos' = <<>> /\ editId' = NULL)
              /\ toast' = "Failed to load todos"
              /\ NoCallIssued]_vars

\* A reload has failed and the list loaded before is still shown.
C7_Witness ==
    /\ toast = "Failed to load todos" /\ ~loading /\ inflight = {}
    /\ todos # <<>> /\ ncalls = 3

\* ------------------------------------------------------------------ C8
\* The step that runs the continuation of the mount call after a success.
MountLoadStep(c) ==
    Resolved(c) /\ c.cid = 1 /\ c.stage = "ok"

\* C8 as stated: the controller starts in Loading and issues list() at mount;
\* it eventually reaches Ready, and when the mount call succeeds the local list
\* is the returned sequence and the edit cursor is null.
C8_Original ==
    /\ loading = TRUE /\ inflight = {}
    /\ [][(~mounted /\ mounted') => Issued = {getTodos(1)}]_vars
    /\ <>(~loading)
    /\ [][\A c \in inflight :
             MountLoadStep(c) =>
                 loading' = FALSE /\ todos' = c.resp /\ editId' = NULL]_vars

\* C8 amended: the controller starts in Loading and issues list() at mount; it
\* eventually reaches Ready, and when the mount call succeeds the local list is
\* the returned sequence and the edit cursor is left as it was, which is null
\* while the controller is still Loading.
C8_MountLoad ==
    /\ loading = TRUE /\ inflight = {}
    /\ [][(~mounted /\ mounted') => Issued = {getTodos(1)}]_vars
    /\ <>(~loading)
    /\ [][\A c \in inflight :
             MountLoadStep(c) =>
                 /\ loading' = FALSE
                 /\ todos' = c.resp
                 /\ editId' = editId
                 /\ loading => editId' = NULL]_vars

\* The mount call has succeeded: Ready, showing the two records of the store.
C8_Witness ==
    /\ ~loading /\ ncalls = 1 /\ inflight = {} /\ toast = ""
    /\ todos = <<T0, T1>> /\ editId = NULL

\* ------------------------------------------------------------------ C9
\* C9: Edit(todo) on a record with an id sets the edit cursor to todo.id and
\* copies the record's title, description and completed into the form; it issues
\* no API call and leaves the local list and the remote store unchanged.
C9_Original ==
    [][\A i \in 1..Len(todos) :
          handleEdit(todos[i]) =>
              /\ editId' = todos[i].id
              /\ form'.title = todos[i].title
              /\ form'.description =
                    (IF todos[i].description = NoDesc THEN "" ELSE todos[i].description)
              /\ form'.completed = todos[i].completed
              /\ NoCallIssued
              /\ inflight' = inflight
              /\ todos' = todos
              /\ server' = server]_vars

\* ------------------------------------------------------------------ C10
\* C10: a delete(id) call for an id that is not in the local list leaves the
\* local list unchanged when it resolves, whether it succeeded or failed.
C10_DeleteAbsentId ==
    [][\A c \in inflight :
          (Resolved(c) /\ c.kind = "deleteTodo" /\ c.id \notin Ids(todos)) =>
              todos' = todos]_vars

\* A first delete of id 1 has removed the record; a second delete of id 1,
\* issued meanwhile, has been answered with success and is about to resolve.
C10_Witness ==
    /\ toast = "Todo deleted!" /\ todos = <<T0>> /\ ncalls = 3
    /\ \E c \in inflight : c.kind = "deleteTodo" /\ c.id = 1 /\ c.stage = "ok"

\* ------------------------------------------------------------------ C11
\* C11: the local list changes only at a successful list() resolution, where
\* it becomes exactly the sequence the response carried, and at a successful
\* delete(id) resolution, where it is filtered by id; no other step changes it.
C11_ListChangesOnlyByLoadOrDelete ==
    [][/\ \A c \in inflight :
             (Resolved(c) /\ c.kind = "getTodos" /\ c.stage = "ok") =>
                 todos' = c.resp
       /\ (todos' # todos) =>
             \E c \in inflight :
                 /\ Resolved(c) /\ c.stage = "ok"
                 /\ \/ c.kind = "getTodos"
                    \/ c.kind = "deleteTodo" /\ RemovedById(todos, todos', c.id)]_vars

\* A create has succeeded and its reload has resolved: the list is the three
\* records of the store, the created one included, none added locally.
C11_Witness ==
    /\ toast = "Todo added!" /\ ncalls = 3 /\ inflight = {}
    /\ Len(todos) = 3 /\ todos = server /\ SubSeq(todos, 1, 2) = <<T0, T1>>

\* ------------------------------------------------------------------ C12
\* C12: loads and deletes are not sequenced: a successful list() resolution
\* puts every record of its snapshot into the local list, also a record whose
\* delete has succeeded since the snapshot was taken, so a reload that resolves
\* after a delete lists the deleted record again.
C12_LastLoadWins ==
    [][\A c \in inflight :
          (Resolved(c) /\ c.kind = "getTodos" /\ c.stage = "ok") =>
              \A i \in 1..Len(c.resp) :
                  \E j \in 1..Len(todos') : todos'[j] = c.resp[i]]_vars

\* The mount call has resolved; a submit has succeeded and its reload was
\* answered with a snapshot holding the record of id 1; the delete of id 1 has
\* since succeeded on the server and removed the record locally.  The reload is
\* the only call left, and its resolution lists the record again.
C12_Witness ==
    /\ toast = "Todo deleted!" /\ ncalls = 4 /\ ~loading
    /\ 1 \notin Ids(server) /\ 1 \notin Ids(todos)
    /\ \E c \in inflight :
          /\ inflight = {c}
          /\ c.kind = "getTodos" /\ c.cid > 1 /\ c.stage = "ok"
          /\ 1 \in Ids(c.resp)

\* ------------------------------------------------------------------ C13
\* C13 as stated: once every in-flight call has resolved, the local list holds
\* no record whose delete succeeded on the server (a record leaves the store
\* only by a successful delete, so such a record is one the store lacks).
C13_Original == (inflight = {}) => Ids(todos) \subseteq Ids(server)

\* C13 amended: a record that the store no longer holds stays in the local list,
\* also once every in-flight call has resolved, until a later successful list()
\* whose snapshot lacks it, or a successful delete of its id, resolves; with no
\* call in flight no step changes the list.
C13_ResurrectionLasts ==
    [][/\ \A i \in 1..Len(todos) :
             (todos[i].id \notin Ids(server) /\ todos[i].id \notin Ids(todos')) =>
                 \E c \in inflight :
                     /\ Resolved(c) /\ c.stage = "ok"
                     /\ \/ c.kind = "getTodos" /\ todos[i].id \notin Ids(c.resp)
                        \/ c.kind = "deleteTodo" /\ c.id = todos[i].id
       /\ (inflight = {}) => todos' = todos]_vars

\* Every call has resolved, the delete of id 1 succeeded on the server, and the
\* record of id 1 is listed.
C13_Witness ==
    /\ inflight = {} /\ ncalls = 4 /\ toast = "Todo deleted!"
    /\ 1 \in Ids(todos) /\ 1 \notin Ids(server) /\ ~loading

\* ------------------------------------------------------------------ C14
\* C14: after every successful load resolution the edit cursor is null or the
\* id of a record of the newly loaded list; a cursor matching no id of the new
\* list has been cleared and the form reset to its defaults.
C14_Original ==
    [][\A c \in inflight :
          (Resolved(c) /\ c.kind = "getTodos" /\ c.stage = "ok") =>
              /\ editId' = NULL \/ editId' \in Ids(todos')
              /\ (editId # NULL /\ editId \notin Ids(c.resp)) =>
                    (editId' = NULL /\ form' = defaultValues)]_vars

\* ------------------------------------------------------------------ C15
\* The step ends the edit session of the record the cursor points to: the
\* cursor changes, or a continuation resets the form.
SessionEnds ==
    /\ editId # NULL
    /\ \/ editId' # editId
       \/ /\ form' # form /\ form' = defaultValues
          /\ \E c \in inflight : Resolved(c)

\* C15: after Edit(t) the cursor and the form stay those of t until the user
\* submits that edit successfully, starts an Edit of another record, or t is
\* deleted; the delete of another record, a load resolution and the resolution
\* of a create or update submitted before Edit(t) do not end the session.  (A
\* create is always submitted before Edit(t), in create mode; an update of
\* another id was submitted in an earlier session; an update of t's own id is
\* taken here as the submit of that edit.)
C15_Original ==
    [][SessionEnds =>
          \/ \E c \in inflight :
                /\ Resolved(c) /\ c.stage = "ok"
                /\ c.kind \in {"updateTodo", "deleteTodo"} /\ c.id = editId
          \/ \E i \in 1..Len(todos) :
                todos[i].id # editId /\ handleEdit(todos[i])]_vars

\* ------------------------------------------------------------------ C16
\* C16: for every listed record, whose id is present, whatever integer it is (0
\* included), Edit(todo) sets the edit cursor to that id and Delete(id) issues
\* one delete(id) call.
C16_Original ==
    [][\A i \in 1..Len(todos) :
          /\ handleEdit(todos[i]) => editId' = todos[i].id
          /\ handleDelete(todos[i].id) =>
                /\ Cardinality(Issued) = 1
                /\ \A d \in Issued :
                      d.kind = "deleteTodo" /\ d.id = todos[i].id /\ d.stage = "sent"]_vars

\* ------------------------------------------------------------------ C17
\* C17: once loading is false it never becomes true again; a reload issued by a
\* successful submit leaves loading and the list as they are, so that in Ready
\* the previous list stays shown, with its Edit and Delete buttons, while the
\* list() call is in flight.
C17_LoadingOnlyInitially ==
    /\ [][/\ ~loading => ~loading'
          /\ \A c \in inflight :
                (Resolved(c) /\ IsSubmitCall(c) /\ c.stage = "ok") =>
                    loading' = loading /\ todos' = todos]_vars
    /\ [](~loading => \A i \in 1..Len(todos) : ENABLED handleEdit(todos[i]))

\* Ready, with a reload in flight after a successful create, and rows shown.
C17_Witness ==
    /\ ~loading /\ toast = "Todo added!" /\ todos # <<>>
    /\ \E d \in inflight : d.kind = "getTodos" /\ d.cid > 1 /\ d.stage = "sent"
    /\ \A d \in inflight : d.cid # 1

\* ------------------------------------------------------------------ C18
\* The edit cursor points to an id the store does not hold, the local list is
\* empty, and the only calls in flight are updates of that id which the store
\* has not accepted: what a state with no call in flight and such a cursor
\* leads to.
StaleEditMode ==
    /\ editId # NULL /\ editId \notin Ids(server)
    /\ todos = <<>> /\ ~loading
    /\ \A c \in inflight :
          c.kind = "updateTodo" /\ c.id = editId /\ c.stage # "ok"

\* C18: the edit cursor is cleared only by the resolution of a successful
\* submit; from a state with no call in flight where the cursor points to an id
\* the store does not hold and the local list is empty, the cursor stays
\* non-null for ever: every call issued is an update of the missing id, every
\* such call fails, and no create is issued again.
C18_PermanentEditMode ==
    [][/\ (editId # NULL /\ editId' = NULL) =>
             \E c \in inflight : Resolved(c) /\ IsSubmitCall(c) /\ c.stage = "ok"
       /\ StaleEditMode =>
             /\ StaleEditMode'
             /\ editId' = editId
             /\ \A d \in Issued : d.kind = "updateTodo" /\ d.id = editId
             /\ \A c \in inflight : Resolved(c) => c.stage = "fail"]_vars

\* Record 1 was deleted while being edited, leaving the list empty; a Submit
\* has since issued an update of id 1, which failed, and the cursor is still 1.
C18_Witness ==
    /\ StaleEditMode /\ inflight = {} /\ ncalls = 3
    /\ editId = 1 /\ toast = "Something went wrong!"

====
